---- MODULE Spec2Model ----
(***************************************************************************)
(* Model of scripts/check-deployment.py: the three status checks           *)
(* (check_github_actions, check_aws_infrastructure,                        *)
(* check_application_health), the report printed by main() and the         *)
(* single-shot / continuous driver under __main__.                         *)
(*                                                                         *)
(* External calls (requests.get, subprocess.run) are inputs: each action   *)
(* draws their outcome from a small set.  An outcome is either a raised    *)
(* exception or a result object.  Exceptions are values that flow through  *)
(* the try/except structure of the code, so that what a handler catches    *)
(* is computed, not assumed.                                               *)
(***************************************************************************)
EXTENDS Integers, Sequences, FiniteSets, TLC

VARIABLES
    entry,          \* how the code is entered: "single", "continuous" (sys.argv) or "call_health" (imported, direct call)
    url_arg,        \* the url argument of check_application_health
    pc,             \* position of the process
    out,            \* lines printed since the current poll cycle began
    ret,            \* return value of the check function that has just returned
    ext,            \* outcomes of the external calls of the check that has just returned (its locals)
    cli,            \* cloud-CLI invocations issued since the current poll cycle began
    http,           \* requests.get calls issued since the current poll cycle began
    gh_status,      \* main(): local gh_status
    aws_status,     \* main(): local aws_status
    health,         \* main(): local health
    exc,            \* the exception that left main() / the called function, NoExc if none
    exit_code,      \* process exit status, -1 while running
    interrupted,    \* a KeyboardInterrupt has been delivered to the process
    cycles,         \* calls of main() started
    reports,        \* footers printed (poll cycles completed)
    sleeps,         \* time.sleep(30) calls started
    calls           \* calls of each check function started

vars == <<entry, url_arg, pc, out, ret, ext, cli, http, gh_status, aws_status,
          health, exc, exit_code, interrupted, cycles, reports, sleeps, calls>>

(***************************************************************************)
(* Bounds                                                                  *)
(***************************************************************************)
MaxCycles == 2

(***************************************************************************)
(* Python values                                                           *)
(***************************************************************************)
None == [type |-> "NoneType"]
PyStr(toks) == [type |-> "str", s |-> toks]        \* a string, as a sequence of tokens
PyInt(n) == [type |-> "int", n |-> n]
PyFloat(n) == [type |-> "float", n |-> n]
PyList(elems) == [type |-> "list", elems |-> elems]
PyDict(items) == [type |-> "dict", items |-> items] \* items: set of <<key, value>>

\* Python truth value of an object (`if x:` / `not x`)
Truthy(v) ==
    CASE v.type = "NoneType" -> FALSE
      [] v.type = "str" -> Len(v.s) > 0
      [] v.type = "int" -> v.n # 0
      [] v.type = "float" -> v.n # 0
      [] v.type = "list" -> Len(v.elems) > 0
      [] v.type = "dict" -> v.items # {}

Has(d, k) == \E p \in d.items : p[1] = k
Item(d, k) == (CHOOSE p \in d.items : p[1] = k)[2]
\* dict.get(k, default)
Get(d, k, default) == IF Has(d, k) THEN Item(d, k) ELSE default

(***************************************************************************)
(* Exceptions                                                              *)
(***************************************************************************)
NoExc == [type |-> "none", msg |-> "", origin |-> "none"]
Exc(t, m) == [type |-> t, msg |-> m]
KeyboardInterrupt == Exc("KeyboardInterrupt", "")
ConnectionError == Exc("ConnectionError", "Connection refused")
InvalidURL == Exc("InvalidURL", "Invalid URL: No host supplied")
FileNotFoundError == Exc("FileNotFoundError", "No such file or directory: 'aws'")
JSONDecodeError == Exc("JSONDecodeError", "Expecting value: line 1 column 1 (char 0)")
AttributeError == Exc("AttributeError", "object has no attribute 'get'")
KeyError(k) == Exc("KeyError", k)

\* Variant: a handler that names the transport errors only
IsException_transport_only(e) == e.type \in {"ConnectionError", "FileNotFoundError"}

\* Class test of `except Exception`: KeyboardInterrupt derives from
\* BaseException, every other exception here from Exception.
IsException(e) == e.type # "KeyboardInterrupt"
\* Class test of a bare `except:` clause.
IsBaseException(e) == TRUE

\* Control-flow results of a block: it returns a value or raises; `printed` are
\* the lines it wrote, `cli` the CLI invocations and `http` the number of GETs
\* it issued.
Return(v) == [kind |-> "return", value |-> v, printed |-> <<>>, cli |-> <<>>, http |-> 0]
Raise(e) == [kind |-> "raise", exc |-> e, printed |-> <<>>, cli |-> <<>>, http |-> 0]
\* the block r, run after the invocations c and h GETs were issued
After(c, h, r) == [r EXCEPT !.cli = c \o @, !.http = h + @]
Printing(r, line) == [r EXCEPT !.printed = @ \o <<line>>]

(***************************************************************************)
(* Outcomes of the external calls                                          *)
(***************************************************************************)
NotCalled == [kind |-> "not called"]
Raised(e) == [kind |-> "raise", exc |-> e]
Response(code, hdrs, text, elapsed) ==
    [kind |-> "response", status_code |-> code, headers |-> hdrs, text |-> text, elapsed |-> elapsed]
CompletedProcess(rc, stdout) == [kind |-> "completed", returncode |-> rc, stdout |-> stdout]

\* JSON documents the sources can send
RunDone == "{\"status\": \"completed\", \"conclusion\": \"success\", \"created_at\": \"t\", \"html_url\": \"u\", \"run_number\": 42}"
RunQueued == "{\"status\": \"queued\", \"conclusion\": null, \"created_at\": \"t\", \"html_url\": \"u\", \"run_number\": 43}"
RunPartial == "{\"status\": \"queued\"}"
RunsOf(run) == "{\"workflow_runs\": [" \o run \o "]}"
NoRuns == "{\"workflow_runs\": []}"
AsgJson == "{\"Status\": \"EC2\", \"Instances\": 2, \"Desired\": 2}"
LbJson == "{\"State\": \"active\", \"DNS\": \"alb.example.com\"}"
OkJson == "{\"ok\": true}"

RunDoneValue ==
    PyDict({<<"status", PyStr(<<"completed">>)>>, <<"conclusion", PyStr(<<"success">>)>>,
            <<"created_at", PyStr(<<"t">>)>>, <<"html_url", PyStr(<<"u">>)>>,
            <<"run_number", PyInt(42)>>})
RunQueuedValue ==
    PyDict({<<"status", PyStr(<<"queued">>)>>, <<"conclusion", None>>,
            <<"created_at", PyStr(<<"t">>)>>, <<"html_url", PyStr(<<"u">>)>>,
            <<"run_number", PyInt(43)>>})
RunPartialValue == PyDict({<<"status", PyStr(<<"queued">>)>>})

\* json.loads / response.json(): the decoded value, or a decoding failure
Decoded(v) == [ok |-> TRUE, value |-> v]
json_loads(text) ==
    CASE text = "null" -> Decoded(None)
      [] text = "{}" -> Decoded(PyDict({}))
      [] text = "[]" -> Decoded(PyList(<<>>))
      [] text = NoRuns -> Decoded(PyDict({<<"workflow_runs", PyList(<<>>)>>}))
      [] text = RunsOf(RunDone) -> Decoded(PyDict({<<"workflow_runs", PyList(<<RunDoneValue>>)>>}))
      [] text = RunsOf(RunQueued) -> Decoded(PyDict({<<"workflow_runs", PyList(<<RunQueuedValue>>)>>}))
      [] text = RunsOf(RunPartial) -> Decoded(PyDict({<<"workflow_runs", PyList(<<RunPartialValue>>)>>}))
      [] text = AsgJson ->
            Decoded(PyDict({<<"Status", PyStr(<<"EC2">>)>>, <<"Instances", PyInt(2)>>, <<"Desired", PyInt(2)>>}))
      [] text = LbJson ->
            Decoded(PyDict({<<"State", PyStr(<<"active">>)>>, <<"DNS", PyStr(<<"alb.example.com">>)>>}))
      [] text = OkJson -> Decoded(PyDict({<<"ok", PyInt(1)>>}))
      [] OTHER -> [ok |-> FALSE, value |-> None]

\* str.strip(): leading and trailing whitespace tokens removed
IsSpace(tok) == tok \in {" ", "\n", "\t"}
RECURSIVE lstrip(_)
lstrip(s) == IF Len(s) > 0 /\ IsSpace(Head(s)) THEN lstrip(Tail(s)) ELSE s
RECURSIVE rstrip(_)
rstrip(s) == IF Len(s) > 0 /\ IsSpace(s[Len(s)]) THEN rstrip(SubSeq(s, 1, Len(s) - 1)) ELSE s
strip(s) == rstrip(lstrip(s))
\* Variant: the content-type compared for equality instead of by prefix
startswith_exact(s, prefix) == s = prefix

\* str.startswith(prefix)
startswith(s, prefix) == Len(s) >= Len(prefix) /\ SubSeq(s, 1, Len(prefix)) = prefix

(***************************************************************************)
(* check_github_actions                                                    *)
(***************************************************************************)
GhDiagnostic == "Error checking GitHub Actions: {e}"
AwsDiagnostic == "Error checking AWS infrastructure: {e}"

RunKeys == <<"status", "created_at", "html_url", "run_number">>
\* the first key of RunKeys that latest_run[...] fails on, "" if none
FirstMissing(run) ==
    IF \E i \in 1..Len(RunKeys) : ~Has(run, RunKeys[i])
    THEN RunKeys[CHOOSE i \in 1..Len(RunKeys) :
                    /\ ~Has(run, RunKeys[i])
                    /\ \A j \in 1..(i - 1) : Has(run, RunKeys[j])]
    ELSE ""

\* the body of the try block, given what requests.get(url) did
github_try(response) ==
    IF response.kind = "raise" THEN After(<<>>, 1, Raise(response.exc))
    ELSE After(<<>>, 1,
        IF response.status_code = 200
        THEN LET data == json_loads(response.text) IN
             IF ~data.ok THEN Raise(JSONDecodeError)
             ELSE IF data.value.type # "dict" THEN Raise(AttributeError)
             ELSE LET runs == Get(data.value, "workflow_runs", PyList(<<>>)) IN
                  IF Truthy(runs)
                  THEN LET latest_run == runs.elems[1] IN
                       IF FirstMissing(latest_run) # "" THEN Raise(KeyError(FirstMissing(latest_run)))
                       ELSE Return(PyDict({
                                <<"status", Item(latest_run, "status")>>,
                                <<"conclusion", Get(latest_run, "conclusion", None)>>,
                                <<"created_at", Item(latest_run, "created_at")>>,
                                <<"html_url", Item(latest_run, "html_url")>>,
                                <<"run_number", Item(latest_run, "run_number")>>}))
                  ELSE Return(None)
        ELSE Return(None))

\* Variant: the handler returns None without printing
except_Exception_silent(r, line) ==
    IF r.kind = "raise" /\ IsException(r.exc)
    THEN [Return(None) EXCEPT !.cli = r.cli, !.http = r.http, !.printed = r.printed]
    ELSE r

\* `except Exception as e: print(line); return None` around the block r
except_Exception_print(r, line) ==
    IF r.kind = "raise" /\ IsException(r.exc)
    THEN Printing([Return(None) EXCEPT !.cli = r.cli, !.http = r.http, !.printed = r.printed], line)
    ELSE r

check_github_actions(response) == except_Exception_print(github_try(response), GhDiagnostic)

(***************************************************************************)
(* check_aws_infrastructure                                                *)
(***************************************************************************)
DescribeAsg == "aws autoscaling describe-auto-scaling-groups"
DescribeLb == "aws elbv2 describe-load-balancers"
DescribeLbDns == "aws elbv2 describe-load-balancers --query LoadBalancers[0].DNSName --output text"

\* Variant: the output is decoded without looking at the return code
aws_lb_stage_unchecked(asg_data, lb_result) ==
    After(<<DescribeLb>>, 0,
        IF lb_result.kind = "raise" THEN Raise(lb_result.exc)
        ELSE LET lb_data == json_loads(lb_result.stdout) IN
             IF ~lb_data.ok THEN Raise(JSONDecodeError)
             ELSE Return(PyDict({<<"asg", asg_data>>, <<"load_balancer", lb_data.value>>})))

\* Variant: any failure of the load-balancer stage leaves lb_data empty
aws_lb_stage_tolerant(asg_data, lb_result) ==
    After(<<DescribeLb>>, 0,
        LET lb_data == IF lb_result.kind = "completed" /\ lb_result.returncode = 0
                          /\ json_loads(lb_result.stdout).ok
                       THEN json_loads(lb_result.stdout).value
                       ELSE PyDict({}) IN
        Return(PyDict({<<"asg", asg_data>>, <<"load_balancer", lb_data>>})))

\* the load-balancer stage of the try block, reached with asg_data decoded
aws_lb_stage(asg_data, lb_result) ==
    After(<<DescribeLb>>, 0,
        IF lb_result.kind = "raise" THEN Raise(lb_result.exc)
        ELSE LET lb_data == IF lb_result.returncode = 0
                            THEN json_loads(lb_result.stdout)
                            ELSE Decoded(PyDict({})) IN
             IF ~lb_data.ok THEN Raise(JSONDecodeError)
             ELSE Return(PyDict({<<"asg", asg_data>>, <<"load_balancer", lb_data.value>>})))

\* Variant: the load-balancer stage is not nested under the return-code test
aws_try_unnested(result, lb_result) ==
    After(<<DescribeAsg>>, 0,
        IF result.kind = "raise" THEN Raise(result.exc)
        ELSE LET asg_data == IF result.returncode = 0 THEN json_loads(result.stdout) ELSE Decoded(PyDict({})) IN
             IF ~asg_data.ok THEN Raise(JSONDecodeError)
             ELSE aws_lb_stage(asg_data.value, lb_result))

\* the body of the try block, given what the two subprocess.run calls do
\* (lb_result is read only if the second call is reached); control that leaves
\* the if without returning reaches `return None`
aws_try(result, lb_result) ==
    After(<<DescribeAsg>>, 0,
        IF result.kind = "raise" THEN Raise(result.exc)
        ELSE IF result.returncode = 0
        THEN LET asg_data == json_loads(result.stdout) IN
             IF ~asg_data.ok THEN Raise(JSONDecodeError)
             ELSE aws_lb_stage(asg_data.value, lb_result)
        ELSE Return(None))

check_aws_infrastructure(result, lb_result) ==
    except_Exception_print(aws_try(result, lb_result), AwsDiagnostic)

(***************************************************************************)
(* check_application_health                                                *)
(***************************************************************************)
Host(url) == SubSeq(url.s, 2, Len(url.s) - 1)

\* lines 76-91: the url after the resolution block, or the exception leaving it
resolve_url(url, dns_result) ==
    IF ~Truthy(url)
    THEN After(<<DescribeLbDns>>, 0,
            IF dns_result.kind = "raise"
            THEN IF IsBaseException(dns_result.exc) THEN Return(url) ELSE Raise(dns_result.exc)
            ELSE IF dns_result.returncode = 0
                 THEN LET dns_name == strip(dns_result.stdout) IN
                      Return(PyStr(<<"http://">> \o dns_name \o <<"/health">>))
                 ELSE Return(url))
    ELSE Return(url)

\* requests.get(url, timeout=10): a URL without a host is refused before any
\* connection is made; otherwise the outcome is the environment's
requests_get(url, response) ==
    IF response.kind = "raise" /\ response.exc = KeyboardInterrupt THEN response
    ELSE IF Len(Host(url)) = 0 THEN Raised(InvalidURL)
    ELSE response

\* lines 96-114, given what requests.get did
health_try(response) ==
    IF response.kind = "raise" THEN Raise(response.exc)
    ELSE IF response.status_code = 200
    THEN LET content_type == Get(response.headers, "content-type", PyStr(<<>>))
             data == IF startswith(content_type.s, <<"application/json">>)
                     THEN json_loads(response.text)
                     ELSE Decoded(PyStr(<<response.text>>)) IN
         IF ~data.ok THEN Raise(JSONDecodeError)
         ELSE Return(PyDict({<<"status", PyStr(<<"healthy">>)>>,
                             <<"response_time", PyFloat(response.elapsed)>>,
                             <<"data", data.value>>}))
    ELSE Return(PyDict({<<"status", PyStr(<<"unhealthy">>)>>,
                        <<"status_code", PyInt(response.status_code)>>,
                        <<"response_time", PyFloat(response.elapsed)>>}))

\* `except Exception as e: return {'status': 'error', 'error': str(e)}`
except_Exception_error(r) ==
    IF r.kind = "raise" /\ IsException(r.exc)
    THEN [Return(PyDict({<<"status", PyStr(<<"error">>)>>, <<"error", PyStr(<<r.exc.msg>>)>>}))
            EXCEPT !.cli = r.cli, !.http = r.http, !.printed = r.printed]
    ELSE r

check_application_health(url, dns_result, response) ==
    LET resolved == resolve_url(url, dns_result) IN
    IF resolved.kind = "raise" THEN resolved
    ELSE IF ~Truthy(resolved.value) THEN After(resolved.cli, 0, Return(None))
    ELSE After(resolved.cli, 1,
            except_Exception_error(health_try(requests_get(resolved.value, response))))

(***************************************************************************)
(* main(): the report                                                      *)
(***************************************************************************)
RECURSIVE PrintAll(_, _)
PrintAll(r, lines) == IF lines = <<>> THEN r ELSE PrintAll(Printing(r, Head(lines)), Tail(lines))

\* lines 118-122
main_banner == <<"OpenClaw Deployment Monitor", "==========", "GitHub Actions Status:">>

\* lines 124-134
render_github(status) ==
    PrintAll(Return(None),
        (IF Truthy(status)
         THEN <<"  Run #{run_number}: {status}">>
              \o (IF Truthy(Item(status, "conclusion")) THEN <<"  Conclusion: {conclusion}">> ELSE <<>>)
              \o <<"  Started: {created_at}", "  URL: {html_url}">>
         ELSE <<"  Could not fetch GitHub Actions status">>)
        \o <<"AWS Infrastructure Status:">>)

\* lines 136-147; x.get(...) on an object that is no dict raises AttributeError
render_aws(status) ==
    IF Truthy(status)
    THEN LET asg == Get(status, "asg", PyDict({}))
             lb == Get(status, "load_balancer", PyDict({})) IN
         IF asg.type # "dict" THEN Raise(AttributeError)
         ELSE LET r == Printing(Return(None), "  Auto Scaling Group: {Instances}/{Desired} instances") IN
              IF Truthy(lb)
              THEN IF lb.type # "dict"
                   THEN [Raise(AttributeError) EXCEPT !.printed = r.printed]
                   ELSE PrintAll(r, <<"  Load Balancer: {State} - {DNS}", "Application Health:">>)
              ELSE Printing(r, "Application Health:")
    ELSE PrintAll(Return(None), <<"  Could not fetch AWS infrastructure status", "Application Health:">>)

FooterLine == "Check completed at {now}"

\* lines 149-160
render_health(status) ==
    PrintAll(Return(None),
        (IF Truthy(status)
         THEN IF Item(status, "status") = PyStr(<<"healthy">>)
              THEN <<"  Application is healthy (response: {response_time}s)">>
                   \o (IF Has(status, "data") THEN <<"  Data: {data}">> ELSE <<>>)
              ELSE <<"  Application unhealthy: {health}">>
         ELSE <<"  Application URL not available yet">>)
        \o <<"==========", FooterLine>>)

(***************************************************************************)
(* Inputs                                                                  *)
(***************************************************************************)
JsonHeaders == PyDict({<<"content-type", PyStr(<<"application/json">>)>>})
JsonUtf8Headers == PyDict({<<"content-type", PyStr(<<"application/json", "; charset=utf-8">>)>>})
TextHeaders == PyDict({<<"content-type", PyStr(<<"text/plain">>)>>})
NoHeaders == PyDict({})

Elapsed == {1, 2}

GhResponses ==
    {Raised(ConnectionError), Raised(KeyboardInterrupt), Response(404, JsonHeaders, "{}", 1)}
    \cup {Response(200, JsonHeaders, b, 1) :
            b \in {RunsOf(RunDone), RunsOf(RunQueued), RunsOf(RunPartial), NoRuns, "{}", "[]", "<html>"}}

AsgResults ==
    {Raised(FileNotFoundError), Raised(KeyboardInterrupt), CompletedProcess(255, "")}
    \cup {CompletedProcess(0, t) : t \in {AsgJson, "null", "EC2 2 2"}}

LbResults ==
    {Raised(FileNotFoundError), Raised(KeyboardInterrupt), CompletedProcess(255, "")}
    \cup {CompletedProcess(0, t) : t \in {LbJson, "null", "active alb.example.com"}}

DnsResults ==
    {Raised(FileNotFoundError), Raised(KeyboardInterrupt), CompletedProcess(255, <<>>)}
    \cup {CompletedProcess(0, t) : t \in {<<"alb.example.com", "\n">>, <<"None", "\n">>, <<"\n">>}}

HealthResponses ==
    {Raised(ConnectionError), Raised(KeyboardInterrupt)}
    \cup {Response(200, h, b, e) :
            h \in {JsonHeaders, JsonUtf8Headers, TextHeaders, NoHeaders}, b \in {OkJson, "OK"}, e \in Elapsed}
    \cup {Response(c, TextHeaders, "unavailable", e) : c \in {404, 503}, e \in Elapsed}

UrlArgs == {None, PyStr(<<>>), PyStr(<<"http://", "app.example.com", "/health">>)}

NoExt == [response |-> NotCalled, result |-> NotCalled, lb_result |-> NotCalled, dns_result |-> NotCalled]
NoCalls == [check_github_actions |-> 0, check_aws_infrastructure |-> 0, check_application_health |-> 0]

(***************************************************************************)
(* The process                                                             *)
(***************************************************************************)
StopLine == "Monitoring stopped."

Init ==
    /\ entry \in {"single", "continuous", "call_health"}
    /\ url_arg \in (IF entry = "call_health" THEN UrlArgs ELSE {None})
    /\ pc = IF entry = "call_health" THEN "health_call" ELSE "start"
    /\ out = <<>>
    /\ ret = None
    /\ ext = NoExt
    /\ cli = <<>>
    /\ http = 0
    /\ gh_status = None
    /\ aws_status = None
    /\ health = None
    /\ exc = NoExc
    /\ exit_code = -1
    /\ interrupted = FALSE
    /\ cycles = 0
    /\ reports = 0
    /\ sleeps = 0
    /\ calls = NoCalls

\* lines 162-172: what the driver does with an exception e that leaves main()
\* or time.sleep (origin: the function it was raised in), after `printed`
driver_except(e, printed) ==
    IF entry = "continuous" /\ e.type = "KeyboardInterrupt"
    THEN [pc |-> "exit", out |-> printed \o <<StopLine>>, exit_code |-> 0]
    ELSE IF entry = "call_health"
    THEN [pc |-> "raised", out |-> printed, exit_code |-> exit_code]
    ELSE [pc |-> "exit", out |-> printed \o <<"Traceback (most recent call last):">>,
          exit_code |-> IF e.type = "KeyboardInterrupt" THEN 130 ELSE 1]

\* the block r of function fn ends: on return the process goes on at `next`,
\* on raise the exception propagates to the driver
Finish(r, fn, next) ==
    /\ cli' = cli \o r.cli
    /\ http' = http + r.http
    /\ IF r.kind = "return"
       THEN /\ pc' = next
            /\ out' = out \o r.printed
            /\ ret' = r.value
            /\ UNCHANGED <<exc, exit_code>>
       ELSE LET d == driver_except(r.exc, out \o r.printed) IN
            /\ pc' = d.pc
            /\ out' = d.out
            /\ exit_code' = d.exit_code
            /\ exc' = [type |-> r.exc.type, msg |-> r.exc.msg, origin |-> fn]
            /\ ret' = None

Delivered(e) == \E f \in DOMAIN e : e[f] = Raised(KeyboardInterrupt)

\* line 164
Start ==
    /\ pc = "start"
    /\ pc' = "main"
    /\ out' = IF entry = "continuous" THEN <<"Starting continuous monitoring (press Ctrl+C to stop)...">> ELSE <<>>
    /\ UNCHANGED <<entry, url_arg, ret, ext, cli, http, gh_status, aws_status, health, exc,
                   exit_code, interrupted, cycles, reports, sleeps, calls>>

\* lines 116-122: main() is entered and prints the banner
MainBegin ==
    /\ pc = "main"
    /\ cycles < MaxCycles
    /\ pc' = "gh_call"
    /\ cycles' = cycles + 1
    /\ out' = main_banner
    /\ cli' = <<>>
    /\ http' = 0
    /\ UNCHANGED <<entry, url_arg, ret, ext, gh_status, aws_status, health, exc,
                   exit_code, interrupted, reports, sleeps, calls>>

\* line 123
CallGithub ==
    /\ pc = "gh_call"
    /\ \E response \in GhResponses :
          /\ Finish(check_github_actions(response), "check_github_actions", "gh_return")
          /\ ext' = [NoExt EXCEPT !.response = response]
    /\ interrupted' = (interrupted \/ Delivered(ext'))
    /\ calls' = [calls EXCEPT !.check_github_actions = @ + 1]
    /\ UNCHANGED <<entry, url_arg, gh_status, aws_status, health, cycles, reports, sleeps>>

\* lines 124-134
RenderGithub ==
    /\ pc = "gh_return"
    /\ gh_status' = ret
    /\ Finish(render_github(ret), "main", "aws_call")
    /\ ext' = NoExt
    /\ UNCHANGED <<entry, url_arg, aws_status, health, interrupted, cycles, reports, sleeps, calls>>

\* line 135
CallAws ==
    /\ pc = "aws_call"
    /\ \E result \in AsgResults, lb_result \in LbResults :
          LET r == check_aws_infrastructure(result, lb_result) IN
          /\ Finish(r, "check_aws_infrastructure", "aws_return")
          /\ ext' = [NoExt EXCEPT !.result = result,
                                  !.lb_result = IF Len(r.cli) = 2 THEN lb_result ELSE NotCalled]
    /\ interrupted' = (interrupted \/ Delivered(ext'))
    /\ calls' = [calls EXCEPT !.check_aws_infrastructure = @ + 1]
    /\ UNCHANGED <<entry, url_arg, gh_status, aws_status, health, cycles, reports, sleeps>>

\* lines 136-147
RenderAws ==
    /\ pc = "aws_return"
    /\ aws_status' = ret
    /\ Finish(render_aws(ret), "main", "health_call")
    /\ ext' = NoExt
    /\ UNCHANGED <<entry, url_arg, gh_status, health, interrupted, cycles, reports, sleeps, calls>>

\* line 148, or a direct call check_application_health(url_arg)
CallHealth ==
    /\ pc = "health_call"
    /\ \E dns_result \in DnsResults, response \in HealthResponses :
          LET r == check_application_health(url_arg, dns_result, response)
              resolved == resolve_url(url_arg, dns_result) IN
          /\ Finish(r, "check_application_health", "health_return")
          /\ ext' = [NoExt EXCEPT
                        !.dns_result = IF resolved.cli # <<>> THEN dns_result ELSE NotCalled,
                        !.response = IF r.http = 1 THEN requests_get(resolved.value, response) ELSE NotCalled]
    /\ interrupted' = (interrupted \/ Delivered(ext'))
    /\ calls' = [calls EXCEPT !.check_application_health = @ + 1]
    /\ UNCHANGED <<entry, url_arg, gh_status, aws_status, health, cycles, reports, sleeps>>

\* lines 149-160: the health section and the footer; main() returns
RenderHealth ==
    /\ pc = "health_return"
    /\ entry # "call_health"
    /\ health' = ret
    /\ Finish(render_health(ret), "main", "main_return")
    /\ ext' = NoExt
    /\ reports' = reports + 1
    /\ UNCHANGED <<entry, url_arg, gh_status, aws_status, interrupted, cycles, sleeps, calls>>

\* Variant: the loop calls main() again without sleeping
after_main_no_sleep(mode) == IF mode = "continuous" THEN "main" ELSE "exit"

\* the position after main() has returned: line 168 in the loop, else the end
after_main(mode) == IF mode = "continuous" THEN "sleep" ELSE "exit"

\* lines 166-168 / 172: back in the driver; main()'s locals are gone
DriverAfterMain ==
    /\ pc = "main_return"
    /\ pc' = after_main(entry)
    /\ sleeps' = IF pc' = "sleep" THEN sleeps + 1 ELSE sleeps
    /\ exit_code' = IF pc' = "exit" THEN 0 ELSE exit_code
    /\ gh_status' = None
    /\ aws_status' = None
    /\ health' = None
    /\ ret' = None
    /\ UNCHANGED <<entry, url_arg, out, ext, cli, http, exc, interrupted, cycles, reports, calls>>

\* line 168 returns, line 166 loops
SleepDone ==
    /\ pc = "sleep"
    /\ cycles < MaxCycles
    /\ pc' = "main"
    /\ UNCHANGED <<entry, url_arg, out, ret, ext, cli, http, gh_status, aws_status, health,
                   exc, exit_code, interrupted, cycles, reports, sleeps, calls>>

\* KeyboardInterrupt raised while main() is printing or the driver sleeps
\* (an interrupt during an external call is that call's outcome)
Interrupt ==
    /\ pc \in (IF entry = "call_health" THEN {} ELSE {"main", "gh_return", "aws_return", "health_return", "sleep"})
    /\ LET d == driver_except(KeyboardInterrupt, out) IN
       /\ pc' = d.pc
       /\ out' = d.out
       /\ exit_code' = d.exit_code
    /\ exc' = [type |-> "KeyboardInterrupt", msg |-> "", origin |-> IF pc = "sleep" THEN "time.sleep" ELSE "main"]
    /\ interrupted' = TRUE
    /\ UNCHANGED <<entry, url_arg, ret, ext, cli, http, gh_status, aws_status, health,
                   cycles, reports, sleeps, calls>>

Next ==
    \/ Start
    \/ MainBegin
    \/ CallGithub
    \/ RenderGithub
    \/ CallAws
    \/ RenderAws
    \/ CallHealth
    \/ RenderHealth
    \/ DriverAfterMain
    \/ SleepDone
    \/ Interrupt

Spec == Init /\ [][Next]_vars

TypeOK ==
    /\ pc \in {"start", "main", "gh_call", "gh_return", "aws_call", "aws_return", "health_call",
               "health_return", "main_return", "sleep", "exit", "raised"}
    /\ exit_code \in {-1, 0, 1, 130}
    /\ cycles \in 0..MaxCycles

(***************************************************************************)
(* Properties                                                              *)
(***************************************************************************)
Last(s) == s[Len(s)]
Printed(line) == \E i \in 1..Len(out) : out[i] = line
CheckFunctions == {"check_github_actions", "check_aws_infrastructure", "check_application_health"}
InCycle == {"gh_call", "gh_return", "aws_call", "aws_return", "health_call", "health_return", "main_return"}
Failed(o) == o.kind = "raise" \/ (o.kind = "completed" /\ o.returncode # 0)
Succeeded(o) == o.kind = "completed" /\ o.returncode = 0 /\ json_loads(o.stdout).ok
HealthDict(status, rest) == PyDict({<<"status", PyStr(<<status>>)>>} \cup rest)

\* C1: with no interrupt, whatever the external calls of the three checks do,
\* no exception leaves main(): every cycle reaches its footer with each failed
\* check shown by its failure line, and a single-shot run exits with status 0.
C1_CycleNeverAborted ==
    (entry # "call_health" /\ ~interrupted) =>
        /\ exc = NoExc
        /\ (pc = "exit" => exit_code = 0)
        /\ (pc = "main_return" =>
                /\ Last(out) = FooterLine
                /\ (gh_status = None => Printed("  Could not fetch GitHub Actions status"))
                /\ (aws_status = None => Printed("  Could not fetch AWS infrastructure status"))
                /\ (health = None => Printed("  Application URL not available yet")))

\* C2: in continuous mode, once a KeyboardInterrupt has been delivered the
\* process is stopped: stop message printed last, exit status 0.
C2_InterruptStops ==
    (entry = "continuous" /\ interrupted) =>
        (pc = "exit" /\ exit_code = 0 /\ Last(out) = StopLine)

\* C3: no exception other than the interrupt ever leaves a check function: for
\* every failure of an external call the check returns None or a dict.
C3_NoExceptionEscapesCheck ==
    /\ (exc.origin \in CheckFunctions => exc.type = "KeyboardInterrupt")
    /\ (pc \in {"gh_return", "aws_return", "health_return"} => ret.type \in {"NoneType", "dict"})
    /\ (pc = "raised" => exc.type = "KeyboardInterrupt")

C3_Witness ==
    /\ pc = "gh_return"
    /\ ext.response.kind = "response"
    /\ ext.response.text = RunsOf(RunPartial)
    /\ ret = None
    /\ exc = NoExc

\* C4 as stated: every 200 response is healthy with elapsed time and data,
\* every other status code is unhealthy with code and elapsed time, every
\* exception raised by the GET is an error carrying its message.
C4_Every200Healthy ==
    (pc = "health_return" /\ ext.response.kind # "not called") =>
        LET r == ext.response IN
        CASE r.kind = "raise" ->
                ret = HealthDict("error", {<<"error", PyStr(<<r.exc.msg>>)>>})
          [] r.kind = "response" /\ r.status_code = 200 ->
                ret = HealthDict("healthy",
                        {<<"response_time", PyFloat(r.elapsed)>>,
                         <<"data", IF startswith(Get(r.headers, "content-type", PyStr(<<>>)).s, <<"application/json">>)
                                   THEN json_loads(r.text).value
                                   ELSE PyStr(<<r.text>>)>>})
          [] OTHER ->
                ret = HealthDict("unhealthy",
                        {<<"status_code", PyInt(r.status_code)>>, <<"response_time", PyFloat(r.elapsed)>>})

IsJsonResponse(r) == \E p \in r.headers.items : p[1] = "content-type" /\ Len(p[2].s) > 0 /\ p[2].s[1] = "application/json"

\* C4 amended: a 200 response is healthy with elapsed time and data (decoded
\* body for a JSON content-type, raw text otherwise) unless its content-type
\* is JSON and the body does not decode: that response is an error carrying
\* the decoder's message.  Other codes: unhealthy; exceptions of the GET: error.
C4_Classification ==
    (pc = "health_return" /\ ext.response.kind # "not called") =>
        LET r == ext.response IN
        CASE r.kind = "raise" ->
                ret = HealthDict("error", {<<"error", PyStr(<<r.exc.msg>>)>>})
          [] r.kind = "response" /\ r.status_code = 200 /\ IsJsonResponse(r) /\ r.text \notin {OkJson} ->
                ret = HealthDict("error", {<<"error", PyStr(<<JSONDecodeError.msg>>)>>})
          [] r.kind = "response" /\ r.status_code = 200 /\ IsJsonResponse(r) /\ r.text = OkJson ->
                ret = HealthDict("healthy",
                        {<<"response_time", PyFloat(r.elapsed)>>, <<"data", PyDict({<<"ok", PyInt(1)>>})>>})
          [] r.kind = "response" /\ r.status_code = 200 /\ ~IsJsonResponse(r) ->
                ret = HealthDict("healthy",
                        {<<"response_time", PyFloat(r.elapsed)>>, <<"data", PyStr(<<r.text>>)>>})
          [] OTHER ->
                ret = HealthDict("unhealthy",
                        {<<"status_code", PyInt(r.status_code)>>, <<"response_time", PyFloat(r.elapsed)>>})

C4_Witness ==
    /\ pc = "health_return"
    /\ ext.response.kind = "response"
    /\ ext.response.status_code = 200
    /\ ext.response.headers = JsonUtf8Headers
    /\ ext.response.text = "OK"
    /\ ret = HealthDict("error", {<<"error", PyStr(<<JSONDecodeError.msg>>)>>})

\* a DNS lookup that gave no usable name: it raised, exited non-zero, or
\* printed nothing but whitespace or the text form of null
LookupFailed(o) ==
    \/ Failed(o)
    \/ (o.kind = "completed" /\ o.returncode = 0 /\ strip(o.stdout) \in {<<>>, <<"None">>})

\* C5: a call without URL whose DNS lookup fails returns None and issues no GET.
C5_NoGetWithoutResolvedName ==
    (pc = "health_return" /\ ext.dns_result.kind # "not called" /\ LookupFailed(ext.dns_result)) =>
        (ret = None /\ ext.response = NotCalled)

\* C6: autoscaling call succeeded, load-balancer call exited non-zero: the
\* result carries the decoded autoscaling data and an empty load_balancer.
C6_LbFailureKeepsAsg ==
    (pc = "aws_return" /\ Succeeded(ext.result)
        /\ ext.lb_result.kind = "completed" /\ ext.lb_result.returncode # 0) =>
        ret = PyDict({<<"asg", json_loads(ext.result.stdout).value>>, <<"load_balancer", PyDict({})>>})

C6_Witness ==
    /\ pc = "aws_return"
    /\ ext.result = CompletedProcess(0, AsgJson)
    /\ ext.lb_result = CompletedProcess(255, "")
    /\ Item(ret, "load_balancer") = PyDict({})
    /\ Has(Item(ret, "asg"), "Instances")

\* C7: in continuous mode cycles and sleeps alternate, and an interrupt that
\* arrives in the sleep after N completed cycles ends a run of exactly N
\* cycles, N reports, N calls of each check and N sleeps, with the stop
\* message and exit status 0.
C7_ExactlyNCycles ==
    entry = "continuous" =>
        /\ (pc \in {"main", "sleep"} => (sleeps = cycles /\ reports = cycles))
        /\ (pc \in InCycle => sleeps = cycles - 1)
        /\ (pc \in InCycle \ {"main_return"} => reports = cycles - 1)
        /\ ((pc = "exit" /\ exc.origin = "time.sleep") =>
                /\ reports = cycles
                /\ sleeps = cycles
                /\ \A f \in CheckFunctions : calls[f] = cycles
                /\ Last(out) = StopLine
                /\ exit_code = 0)

C7_Witness ==
    /\ entry = "continuous"
    /\ pc = "exit"
    /\ exc.origin = "time.sleep"
    /\ cycles = 2
    /\ reports = 2
    /\ Last(out) = StopLine

\* C8 as stated: a check that returns None because a source call failed has
\* printed a diagnostic line.
C8_NoneImpliesDiagnostic ==
    /\ ((pc = "gh_return" /\ ret = None) => Printed(GhDiagnostic))
    /\ ((pc = "aws_return" /\ ret = None) => Printed(AwsDiagnostic))
    /\ ((pc = "health_return" /\ ret = None) => (out # <<>> /\ Last(out) # "Application Health:"))

\* C8 amended: the CI and the infrastructure check print their diagnostic
\* line exactly when an exception was raised inside the try block; a None
\* from a non-200 response, an empty run list or a non-zero exit of the
\* autoscaling call is returned in silence, and the health check never
\* prints anything.
C8_DiagnosticOnlyOnException ==
    /\ (pc = "gh_return" =>
            LET r == ext.response IN
            /\ (r.kind = "raise" => (ret = None /\ Last(out) = GhDiagnostic))
            /\ ((r.kind = "response" /\ r.status_code = 200 /\ r.text \in {"<html>", "[]", RunsOf(RunPartial)})
                    => (ret = None /\ Last(out) = GhDiagnostic))
            /\ ((r.kind = "response" /\ (r.status_code # 200 \/ r.text \in {NoRuns, "{}"}))
                    => (ret = None /\ ~Printed(GhDiagnostic)))
            /\ (ret # None => ~Printed(GhDiagnostic)))
    /\ (pc = "aws_return" =>
            /\ ((ext.result.kind = "raise" \/ (ext.result.kind = "completed" /\ ext.result.returncode = 0
                                                /\ ext.result.stdout = "EC2 2 2"))
                    => (ret = None /\ Last(out) = AwsDiagnostic))
            /\ ((ext.result.kind = "completed" /\ ext.result.returncode # 0)
                    => (ret = None /\ ~Printed(AwsDiagnostic)))
            /\ (ret # None => ~Printed(AwsDiagnostic)))
    /\ (pc = "health_return" =>
            IF entry = "call_health" THEN out = <<>> ELSE Last(out) = "Application Health:")

C8_Witness ==
    /\ pc = "gh_return"
    /\ ext.response.kind = "response"
    /\ ext.response.status_code = 404
    /\ ret = None
    /\ ~Printed(GhDiagnostic)

\* C9 as stated: every infrastructure check issues the two invocations,
\* whatever the first does, and a cycle that resolves the URL issues three.
C9_AlwaysTwoInvocations ==
    /\ (pc = "aws_return" => cli = <<DescribeAsg, DescribeLb>>)
    /\ ((pc = "health_return" /\ entry # "call_health") => cli = <<DescribeAsg, DescribeLb, DescribeLbDns>>)

\* C9 amended: every infrastructure check issues describe-auto-scaling-groups
\* first; describe-load-balancers follows exactly when the first call exited 0
\* with output that decodes, else the check issues that one invocation only.
\* A cycle, which always resolves the health URL itself, issues two or three.
C9_SecondOnlyAfterFirst ==
    /\ (pc = "aws_return" =>
            cli = IF Succeeded(ext.result) THEN <<DescribeAsg, DescribeLb>> ELSE <<DescribeAsg>>)
    /\ ((pc = "health_return" /\ entry # "call_health") =>
            /\ cli \in {<<DescribeAsg, DescribeLbDns>>, <<DescribeAsg, DescribeLb, DescribeLbDns>>}
            /\ (aws_status # None => Len(cli) = 3))

C9_Witness ==
    /\ pc = "health_return"
    /\ entry = "single"
    /\ cli = <<DescribeAsg, DescribeLbDns>>

\* C10: autoscaling call succeeded, then the load-balancer call raises or its
\* exit-0 output does not decode: the diagnostic is printed and the check
\* returns None, not the autoscaling data.
C10_LbExceptionDiscardsAsg ==
    (pc = "aws_return" /\ Succeeded(ext.result)
        /\ (ext.lb_result.kind = "raise"
            \/ (ext.lb_result.kind = "completed" /\ ext.lb_result.returncode = 0
                /\ ~json_loads(ext.lb_result.stdout).ok))) =>
        (ret = None /\ Last(out) = AwsDiagnostic)

C10_Witness ==
    /\ pc = "aws_return"
    /\ ext.result = CompletedProcess(0, AsgJson)
    /\ ext.lb_result = CompletedProcess(0, "active alb.example.com")
    /\ ret = None
    /\ Last(out) = AwsDiagnostic

====
